---- MODULE Spec2Model ----
(***************************************************************************)
(* Background maintenance subsystem of demo-fastapi: the upload queue, the *)
(* APScheduler jobs of app/schedulers.py (upload drain, retention sweep,   *)
(* row-cap sweeps) and the scheduler's start/shutdown hooks.               *)
(*                                                                         *)
(* Strings are sequences of one-character strings, so that the path the    *)
(* drain job formats and the prefix the sweep parses are computed the way  *)
(* the code computes them (f-string, str.split, strftime, strptime).       *)
(* Wall-clock instants are whole seconds since 1970-01-01 00:00:00 of the  *)
(* naive local calendar that datetime.datetime.now() reads.                *)
(***************************************************************************)
EXTENDS Integers, Sequences, FiniteSets, TLC

(***************************************************************************)
(* Characters and strings                                                  *)
(***************************************************************************)
DigitChars == <<"0", "1", "2", "3", "4", "5", "6", "7", "8", "9">>

IsDigit(c) == \E i \in 1..10 : DigitChars[i] = c

DigitVal(c) == (CHOOSE i \in 1..10 : DigitChars[i] = c) - 1

\* n formatted in exactly two decimal digits (n in 0..99), as %m %d %H %M %S do
TwoDigits(n) == <<DigitChars[(n \div 10) + 1], DigitChars[(n % 10) + 1]>>

\* n formatted in exactly four decimal digits (n in 0..9999), as %Y does
FourDigits(n) ==
    <<DigitChars[(n \div 1000) + 1], DigitChars[((n \div 100) % 10) + 1],
      DigitChars[((n \div 10) % 10) + 1], DigitChars[(n % 10) + 1]>>

\* the decimal value of a string of digits
RECURSIVE NumVal(_)
NumVal(s) ==
    IF s = <<>> THEN 0
    ELSE 10 * NumVal(SubSeq(s, 1, Len(s) - 1)) + DigitVal(s[Len(s)])

AllDigits(s) == \A i \in 1..Len(s) : IsDigit(s[i])

\* positions of character c in s
Positions(s, c) == {i \in 1..Len(s) : s[i] = c}

SetMax(S) == CHOOSE x \in S : \A y \in S : y <= x
SetMin(S) == CHOOSE x \in S : \A y \in S : x <= y

\* s.split(c)[-1]: what follows the last c, or all of s when c is absent
SplitLast(s, c) ==
    IF Positions(s, c) = {} THEN s
    ELSE SubSeq(s, SetMax(Positions(s, c)) + 1, Len(s))

\* s.split(c)[0]: what precedes the first c, or all of s when c is absent
SplitFirst(s, c) ==
    IF Positions(s, c) = {} THEN s
    ELSE SubSeq(s, 1, SetMin(Positions(s, c)) - 1)

(***************************************************************************)
(* The proleptic Gregorian calendar of datetime                            *)
(***************************************************************************)
IsLeap(y) == (y % 4 = 0 /\ y % 100 # 0) \/ y % 400 = 0

DaysInMonth(y, m) ==
    IF m = 2 THEN (IF IsLeap(y) THEN 29 ELSE 28)
    ELSE IF m \in {4, 6, 9, 11} THEN 30 ELSE 31

\* days from 1970-01-01 to the civil date y-m-d
DaysFromCivil(y, m, d) ==
    LET yy  == IF m <= 2 THEN y - 1 ELSE y
        era == yy \div 400
        yoe == yy - era * 400
        mp  == IF m > 2 THEN m - 3 ELSE m + 9
        doy == ((153 * mp + 2) \div 5) + d - 1
        doe == yoe * 365 + (yoe \div 4) - (yoe \div 100) + doy
    IN  era * 146097 + doe - 719468

\* the civil date of a day count since 1970-01-01
CivilFromDays(z0) ==
    LET z   == z0 + 719468
        era == z \div 146097
        doe == z - era * 146097
        yoe == (doe - (doe \div 1460) + (doe \div 36524) - (doe \div 146096)) \div 365
        doy == doe - (365 * yoe + (yoe \div 4) - (yoe \div 100))
        mp  == (5 * doy + 2) \div 153
        d   == doy - ((153 * mp + 2) \div 5) + 1
        m   == IF mp < 10 THEN mp + 3 ELSE mp - 9
        y   == yoe + era * 400 + (IF m <= 2 THEN 1 ELSE 0)
    IN  [year |-> y, month |-> m, day |-> d]

\* the datetime (to the second) of an instant
DateTimeOf(t) ==
    LET c   == CivilFromDays(t \div 86400)
        sod == t % 86400
    IN  [year |-> c.year, month |-> c.month, day |-> c.day,
         hour |-> sod \div 3600, minute |-> (sod \div 60) % 60, second |-> sod % 60]

\* the instant of a datetime
InstantOf(dt) ==
    DaysFromCivil(dt.year, dt.month, dt.day) * 86400
        + dt.hour * 3600 + dt.minute * 60 + dt.second

\* datetime.strftime("%Y%m%d-%H%M%S") of the instant t
Strftime(t) ==
    LET dt == DateTimeOf(t)
    IN  FourDigits(dt.year) \o TwoDigits(dt.month) \o TwoDigits(dt.day) \o <<"-">>
            \o TwoDigits(dt.hour) \o TwoDigits(dt.minute) \o TwoDigits(dt.second)

\* datetime.strptime(s, "%Y%m%d-%H%M%S"): ok = FALSE stands for the ValueError it
\* raises. Fields are matched at their full width (4-2-2, "-", 2-2-2); the
\* one-digit alternatives strptime also accepts occur in no string of this model.
Strptime(s) ==
    IF /\ Len(s) = 15
       /\ AllDigits(SubSeq(s, 1, 8))
       /\ s[9] = "-"
       /\ AllDigits(SubSeq(s, 10, 15))
    THEN CHOOSE parsed \in
             { IF /\ dt.year >= 1
                  /\ dt.month \in 1..12
                  /\ dt.day >= 1 /\ dt.day <= DaysInMonth(dt.year, dt.month)
                  /\ dt.hour <= 23 /\ dt.minute <= 59 /\ dt.second <= 59
               THEN [ok |-> TRUE, t |-> InstantOf(dt)]
               ELSE [ok |-> FALSE, t |-> 0] :
               dt \in {[year   |-> NumVal(SubSeq(s, 1, 4)),
                        month  |-> NumVal(SubSeq(s, 5, 6)),
                        day    |-> NumVal(SubSeq(s, 7, 8)),
                        hour   |-> NumVal(SubSeq(s, 10, 11)),
                        minute |-> NumVal(SubSeq(s, 12, 13)),
                        second |-> NumVal(SubSeq(s, 14, 15))]} } : TRUE
    ELSE [ok |-> FALSE, t |-> 0]

(***************************************************************************)
(* Paths: upload_files_from_queue builds them, delete_old_files parses them *)
(***************************************************************************)
FilesDir == <<"f", "i", "l", "e", "s">>

\* file_path = f'files/{current_date}_{metadata["filename"]}'
FilePath(current_date, filename) ==
    FilesDir \o <<"/">> \o current_date \o <<"_">> \o filename

\* file_timestamp_str = file.path.split("/")[-1].split("_")[0]
TimestampStr(path) == SplitFirst(SplitLast(path, "/"), "_")

\* file_timestamp = datetime.datetime.strptime(file_timestamp_str, "%Y%m%d-%H%M%S")
\* (file_timestamp_str is bound as a value, so that it is computed once)
FileTimestamp(path) ==
    CHOOSE file_timestamp \in
        {Strptime(file_timestamp_str) :
            file_timestamp_str \in {TimestampStr(p) : p \in {path}}} : TRUE

\* if file_age > 20 * 60
RetentionSeconds == 20 * 60

\* (mutant of IsExpired: the comparison includes the threshold itself)
IsExpiredInclusive(file_age) == file_age >= RetentionSeconds

IsExpired(file_age) == file_age > RetentionSeconds

\* if len(users) > 10: users_to_delete = users[10:]
RowCap == 10

\* def get_users(db, skip=0, limit=100), def get_items(db, skip=0, limit=100)
QueryLimit == 100

(***************************************************************************)
(* Bounds and inputs of the model                                          *)
(***************************************************************************)
\* uploads accepted in one behaviour
MaxUploads == 2

\* I/O failures (disk, database) the environment injects in one behaviour
MaxIOFailures == 1

\* the longest a job's invocation stays in I/O, in seconds
MaxBlockSeconds == 2

\* stored User / Item rows at process start range over 0..MaxUsers, 0..MaxItems
MaxUsers == 102
MaxItems == 12

\* client-supplied filenames: plain, with the separator character, with a slash
FileNameA == <<"a">>
FileNameU == <<"a", "_", "b">>
FileNameS == <<"d", "/", "a">>
FileNames == {FileNameU, FileNameS}

\* the wall clock at process start: 2024-01-31 23:45:00
Epoch0 ==
    InstantOf([year |-> 2024, month |-> 1, day |-> 31,
               hour |-> 23, minute |-> 45, second |-> 0])

\* the instants the wall clock is read at, as offsets from process start:
\* 20 min, 20 min 1 s, 29 min
ClockOffsets == {0, 20 * 60, 20 * 60 + 1, 29 * 60}

\* rows of the files table left by earlier runs of the service: two well-formed
\* ones stamped at Epoch0 and one whose path carries no timestamp prefix
OldA == [filename |-> FileNameA, path |-> FilePath(Strftime(Epoch0), FileNameA)]
OldB == [filename |-> FileNameU, path |-> FilePath(Strftime(Epoch0), FileNameU)]
Bad  == [filename |-> FileNameA, path |-> FilesDir \o <<"/">> \o FileNameA]

InitListings ==
    { <<>>, <<OldA, OldB>>, <<OldA, Bad, OldB>> }

\* rows 1..n of a table, in retrieval order
IdSeq(n) == [i \in 1..n |-> i]

WithIds(rows) ==
    [i \in 1..Len(rows) |->
        [id |-> i, filename |-> rows[i].filename, path |-> rows[i].path]]

Min(a, b) == IF a <= b THEN a ELSE b
Max(a, b) == IF a >= b THEN a ELSE b

SeqToSet(s) == {s[i] : i \in 1..Len(s)}

RECURSIVE SelectSeqBy(_, _)
\* the rows of table whose id is not in ids, in order
SelectSeqBy(table, ids) ==
    IF table = <<>> THEN <<>>
    ELSE IF Head(table) \in ids THEN SelectSeqBy(Tail(table), ids)
         ELSE <<Head(table)>> \o SelectSeqBy(Tail(table), ids)

(***************************************************************************)
(* State                                                                   *)
(***************************************************************************)
VARIABLES
    state,        \* scheduler.state of the AsyncIOScheduler
    wasShutDown,  \* history: scheduler.shutdown() has taken effect at least once
    lastCall,     \* history: the last lifecycle hook called and whether it raised
    jobstore,     \* ids of the jobs registered by scheduler.add_job
    loop,         \* the coroutine job running on the event loop, or "free"
    now,          \* the wall clock
    file_queue,   \* app.queue.file_queue
    uploads,      \* history: filename of every accepted upload, by item number
    taken,        \* history: items the drain job took from the queue, in order
    writes,       \* history: payload writes, [item, path]
    created,      \* history: FileRecords created, [item, id, filename, path]
    fs,           \* the files directory: path -> item whose payload it holds
    db_files,     \* table files, in retrieval order
    nextFileId,   \* next fresh FileRecord id
    ioFailures,   \* history: I/O failures injected so far
    sweep,        \* the delete_old_files invocation: pc, listing, now, index
    sweepDeleted, \* history: ids delete_old_files deleted in its current invocation
    sweepRemoved, \* history: paths it passed to os.remove in that invocation
    users,        \* table users (ids), in retrieval order
    items,        \* table items (ids), in retrieval order
    pT,           \* path round trip: the instant
    pName,        \* path round trip: the filename
    pPath,        \* path round trip: the path built
    pParsed,      \* path round trip: FileTimestamp of the path built
    pStage,       \* path round trip: "input", "built" or "parsed"
    request,      \* history: the last HTTP request handled
    response,     \* the HTTP response to the last request handled
    handler,      \* the delete request a worker thread is handling, step by step
    clock,        \* timing: seconds since the triggers were created
    next_run_time,\* timing: job.next_run_time of each job, in seconds of clock
    fired,        \* timing, history: invocations of each job started so far
    tasks,        \* timing: coroutine invocations submitted to the loop, not yet begun
    instances     \* timing: jobs with an invocation submitted and not yet finished

vars ==
    <<state, wasShutDown, lastCall, jobstore, loop, now, file_queue, uploads,
      taken, writes, created, fs, db_files, nextFileId, ioFailures, sweep,
      sweepDeleted, sweepRemoved, users, items, pT, pName, pPath, pParsed, pStage,
      request, response, handler, clock, next_run_time, fired, tasks, instances>>

schedVars == <<state, wasShutDown, lastCall, jobstore>>
drainVars == <<file_queue, uploads, taken, writes, created, nextFileId>>
sweepVars == <<sweep, sweepDeleted, sweepRemoved>>
tableVars == <<users, items>>
pathVars  == <<pT, pName, pPath, pParsed, pStage>>
httpVars  == <<request, response, handler>>
timerVars == <<clock, next_run_time, fired, tasks, instances>>

JobIds ==
    {"delete_old_files", "upload_files_from_queue",
     "delete_excess_users", "delete_excess_items"}

IdleSweep == [pc |-> "idle", files |-> <<>>, now |-> 0, idx |-> 0]

\* trigger=IntervalTrigger(minutes=5 / 4 / 10 / 10), in seconds
Period(job) ==
    CASE job = "delete_old_files"        -> 5 * 60
      [] job = "upload_files_from_queue" -> 4 * 60
      [] job = "delete_excess_users"     -> 10 * 60
      [] job = "delete_excess_items"     -> 10 * 60

\* an HTTP response: the status code, the keys of the JSON object returned, and
\* among its values the filename, the status / message / detail text, and, for
\* a list, its entries in order; NoResponse before any request
NoResponse ==
    [status_code |-> 0, keys |-> {}, filename |-> <<>>, text |-> "", entries |-> <<>>]

\* an HTTP request: the handler it is routed to and the file ids it carries
NoRequest == [op |-> "none", file_ids |-> <<>>]

\* no delete request in a worker thread; deleted: history, the ids such requests
\* have deleted so far
IdleHandler ==
    [pc |-> "idle", op |-> "none", file_ids |-> <<>>, path |-> <<>>,
     entries |-> <<>>, deleted |-> {}]

InitCommon ==
    /\ state = "STATE_STOPPED"
    /\ wasShutDown = FALSE
    /\ lastCall = [op |-> "none", raised |-> FALSE]
    /\ jobstore = JobIds
    /\ loop = "free"
    /\ now = Epoch0
    /\ file_queue = <<>>
    /\ uploads = <<>>
    /\ taken = <<>>
    /\ writes = <<>>
    /\ created = <<>>
    /\ ioFailures = 0
    /\ sweep = IdleSweep
    /\ sweepDeleted = {}
    /\ sweepRemoved = {}
    /\ request = NoRequest
    /\ response = NoResponse
    /\ handler = IdleHandler
    /\ clock = 0
    /\ next_run_time = [job \in JobIds |-> Period(job)]
    /\ fired = [job \in JobIds |-> 0]
    /\ tasks = <<>>
    /\ instances = {}

InitPathIdle ==
    /\ pT = 0
    /\ pName = <<>>
    /\ pPath = <<>>
    /\ pParsed = [ok |-> FALSE, t |-> 0]
    /\ pStage = "input"

\* the service starts on whatever the database and the files directory hold
Init ==
    /\ InitCommon
    /\ InitPathIdle
    /\ \E listing \in InitListings :
          /\ db_files = WithIds(listing)
          /\ fs = [p \in {listing[i].path : i \in 1..Len(listing)} |-> 0]
          /\ nextFileId = Len(listing) + 1
    /\ users = IdSeq(RowCap + 1)
    /\ items = IdSeq(RowCap)

(***************************************************************************)
(* The scheduler (apscheduler's AsyncIOScheduler, as app/schedulers.py     *)
(* drives it)                                                              *)
(***************************************************************************)
\* scheduler.start(): raises SchedulerAlreadyRunningError unless stopped
SchedulerStart(st) ==
    IF st # "STATE_STOPPED"
    THEN [state |-> st, raised |-> TRUE]
    ELSE [state |-> "STATE_RUNNING", raised |-> FALSE]

\* (mutant of SchedulerShutdown: the state is not set to stopped)
SchedulerShutdownKeepsState(st) ==
    IF st = "STATE_STOPPED"
    THEN [state |-> st, raised |-> TRUE]
    ELSE [state |-> st, raised |-> FALSE]

\* scheduler.shutdown(): raises SchedulerNotRunningError when stopped
SchedulerShutdown(st) ==
    IF st = "STATE_STOPPED"
    THEN [state |-> st, raised |-> TRUE]
    ELSE [state |-> "STATE_STOPPED", raised |-> FALSE]

\* (mutant of JobStoreShutdown: the job store keeps its jobs)
JobStoreShutdownKeepsJobs(store) == store

\* scheduler.shutdown() shuts the job stores down, and the default (memory) job
\* store drops its jobs as it shuts down: a later start() finds none pending
JobStoreShutdown(store) == {}

\* (mutant of Due: jobs are submitted whatever the scheduler's state)
DueWhateverState(job) == job \in jobstore

\* a job is due and may be submitted: the scheduler runs and holds the job
Due(job) == state = "STATE_RUNNING" /\ job \in jobstore

\* (mutant of JobRaised: a job that raised is removed from the job store)
JobRaisedUnschedules(st, store, job) == [state |-> st, jobstore |-> store \ {job}]

\* what an exception escaping a job's invocation leaves of the scheduler: the
\* executor logs it; the interval job stays in the job store, the state stays
JobRaised(st, store, job) == [state |-> st, jobstore |-> store]

\* async def startup_event(): scheduler.start()
startup_event ==
    /\ loop = "free"
    /\ LET r == SchedulerStart(state)
       IN  /\ state' = r.state
           /\ lastCall' = [op |-> "start", raised |-> r.raised]
    /\ UNCHANGED <<wasShutDown, jobstore, loop, now, fs, db_files, ioFailures>>
    /\ UNCHANGED <<drainVars, sweepVars, tableVars, pathVars, httpVars, timerVars>>

\* async def shutdown_event(): scheduler.shutdown()
shutdown_event ==
    /\ loop = "free"
    /\ LET r == SchedulerShutdown(state)
       IN  /\ state' = r.state
           /\ lastCall' = [op |-> "shutdown", raised |-> r.raised]
           /\ wasShutDown' = (wasShutDown \/ ~r.raised)
           /\ jobstore' = IF r.raised THEN jobstore ELSE JobStoreShutdown(jobstore)
    /\ UNCHANGED <<loop, now, fs, db_files, ioFailures>>
    /\ UNCHANGED <<drainVars, sweepVars, tableVars, pathVars, httpVars, timerVars>>

\* the wall clock moves on
Tick ==
    /\ \E d \in ClockOffsets : Epoch0 + d > now /\ now' = Epoch0 + d
    /\ UNCHANGED <<schedVars, loop, fs, db_files, ioFailures>>
    /\ UNCHANGED <<drainVars, sweepVars, tableVars, pathVars, httpVars, timerVars>>

(***************************************************************************)
(* The upload request handler and the upload drain job                     *)
(***************************************************************************)
\* file_queue.put(metadata) of queue.Queue: appends at the tail
QueuePut(q, metadata) == Append(q, metadata)

\* file_queue.empty()
QueueEmpty(q) == q = <<>>

\* file_queue.get(): the head, removed
QueueGet(q) == [metadata |-> Head(q), rest |-> Tail(q)]

\* (mutant of UploadResponse: the response carries a file_id as well)
UploadResponseWithId(filename) ==
    [status_code |-> 200, keys |-> {"filename", "status", "file_id"},
     filename |-> filename, text |-> "File added to upload queue", entries |-> <<>>]

\* return {"filename": file.filename, "status": "File added to upload queue"}
UploadResponse(filename) ==
    [status_code |-> 200, keys |-> {"filename", "status"}, filename |-> filename,
     text |-> "File added to upload queue", entries |-> <<>>]

\* (mutant of upload_file: a plain def, run in a worker thread whatever the event
\* loop is doing)
upload_file_in_thread ==
    /\ Len(uploads) < MaxUploads
    /\ \E filename \in FileNames :
          /\ file_queue' =
                QueuePut(file_queue, [item |-> Len(uploads) + 1, filename |-> filename])
          /\ uploads' = Append(uploads, filename)
          /\ request' = [op |-> "upload_file", file_ids |-> <<>>]
          /\ response' = UploadResponse(filename)
          /\ UNCHANGED handler
    /\ UNCHANGED <<schedVars, loop, now, fs, db_files, ioFailures>>
    /\ UNCHANGED <<taken, writes, created, nextFileId>>
    /\ UNCHANGED <<sweepVars, tableVars, pathVars, timerVars>>

\* async def upload_file: reads the payload, puts the metadata on the queue and
\* answers
upload_file ==
    /\ loop = "free"
    /\ Len(uploads) < MaxUploads
    /\ \E filename \in FileNames :
          /\ file_queue' =
                QueuePut(file_queue, [item |-> Len(uploads) + 1, filename |-> filename])
          /\ uploads' = Append(uploads, filename)
          /\ request' = [op |-> "upload_file", file_ids |-> <<>>]
          /\ response' = UploadResponse(filename)
          /\ UNCHANGED handler
    /\ UNCHANGED <<schedVars, loop, now, fs, db_files, ioFailures>>
    /\ UNCHANGED <<taken, writes, created, nextFileId>>
    /\ UNCHANGED <<sweepVars, tableVars, pathVars, timerVars>>

\* the scheduler submits upload_files_from_queue: a coroutine with no await, it
\* holds the event loop from its first statement to its last
DrainBegin ==
    /\ Due("upload_files_from_queue")
    /\ loop = "free"
    /\ loop' = "upload_files_from_queue"
    /\ UNCHANGED <<schedVars, now, fs, db_files, ioFailures>>
    /\ UNCHANGED <<drainVars, sweepVars, tableVars, pathVars, httpVars, timerVars>>

\* (mutant of DrainTake: a second get() in the same turn drops an item)
DrainTakeTwo(q) ==
    [metadata |-> Head(q), rest |-> IF Len(q) >= 2 THEN Tail(Tail(q)) ELSE Tail(q)]

\* (mutant of DrainTake: the item queued last is taken)
DrainTakeLast(q) == [metadata |-> q[Len(q)], rest |-> SubSeq(q, 1, Len(q) - 1)]

\* metadata = file_queue.get()
DrainTake(q) == QueueGet(q)

\* (mutant of NewFileRecord: the arguments of create_file are swapped)
NewFileRecordSwapped(id, filename, path) ==
    [id |-> id, filename |-> path, path |-> filename]

\* crud.create_file(db, filename, path): db_file = models.File(filename=filename, path=path)
NewFileRecord(id, filename, path) == [id |-> id, filename |-> filename, path |-> path]

\* open(file_path, "wb") finds the directory of file_path: the service only ever
\* has the directory files/, it creates no other
DirectoryExists(path) == Cardinality(Positions(path, "/")) = 1

\* the job ends by an exception: the executor logs it and the loop is free again
DrainRaise ==
    /\ loop' = "free"
    /\ LET r == JobRaised(state, jobstore, "upload_files_from_queue")
       IN  state' = r.state /\ jobstore' = r.jobstore

\* (mutant of DrainIter: the FileRecord is created before the payload is written)
DrainIterRecordsFirst ==
    /\ loop = "upload_files_from_queue"
    /\ ~QueueEmpty(file_queue)
    /\ LET got          == DrainTake(file_queue)
           metadata     == got.metadata
           current_date == Strftime(now)
           file_path    == FilePath(current_date, metadata.filename)
           created_file == NewFileRecord(nextFileId, metadata.filename, file_path)
       IN  /\ file_queue' = got.rest
           /\ taken' = Append(taken, metadata.item)
           /\ db_files' = Append(db_files, created_file)
           /\ created' = Append(created,
                  [item |-> metadata.item, id |-> created_file.id,
                   filename |-> created_file.filename, path |-> created_file.path])
           /\ nextFileId' = nextFileId + 1
           /\ \/ /\ ~DirectoryExists(file_path) \/ ioFailures < MaxIOFailures
                 /\ ioFailures' = ioFailures + 1
                 /\ DrainRaise
                 /\ UNCHANGED <<fs, writes>>
              \/ /\ DirectoryExists(file_path)
                 /\ fs' = (file_path :> metadata.item) @@ fs
                 /\ writes' = Append(writes, [item |-> metadata.item, path |-> file_path])
                 /\ UNCHANGED <<state, jobstore, loop, ioFailures>>
    /\ UNCHANGED <<wasShutDown, lastCall, now, uploads>>
    /\ UNCHANGED <<sweepVars, tableVars, pathVars, httpVars, timerVars>>

\* one turn of: while not file_queue.empty()
DrainIter ==
    /\ loop = "upload_files_from_queue"
    /\ ~QueueEmpty(file_queue)
    /\ LET got          == DrainTake(file_queue)
           metadata     == got.metadata
           current_date == Strftime(now)
           file_path    == FilePath(current_date, metadata.filename)
       IN  /\ file_queue' = got.rest
           /\ taken' = Append(taken, metadata.item)
           /\ \/ \* open() or f.write() raises
                 /\ ~DirectoryExists(file_path) \/ ioFailures < MaxIOFailures
                 /\ ioFailures' = ioFailures + 1
                 /\ DrainRaise
                 /\ UNCHANGED <<fs, writes, db_files, created, nextFileId>>
              \/ \* the payload is written, crud.create_file raises
                 /\ DirectoryExists(file_path)
                 /\ ioFailures < MaxIOFailures
                 /\ ioFailures' = ioFailures + 1
                 /\ fs' = (file_path :> metadata.item) @@ fs
                 /\ writes' = Append(writes, [item |-> metadata.item, path |-> file_path])
                 /\ DrainRaise
                 /\ UNCHANGED <<db_files, created, nextFileId>>
              \/ \* the payload is written and the FileRecord created
                 /\ DirectoryExists(file_path)
                 /\ fs' = (file_path :> metadata.item) @@ fs
                 /\ writes' = Append(writes, [item |-> metadata.item, path |-> file_path])
                 /\ LET created_file ==
                            NewFileRecord(nextFileId, metadata.filename, file_path)
                    IN  /\ db_files' = Append(db_files, created_file)
                        /\ created' = Append(created,
                               [item |-> metadata.item, id |-> created_file.id,
                                filename |-> created_file.filename,
                                path |-> created_file.path])
                 /\ nextFileId' = nextFileId + 1
                 /\ UNCHANGED <<state, jobstore, loop, ioFailures>>
    /\ UNCHANGED <<wasShutDown, lastCall, now, uploads>>
    /\ UNCHANGED <<sweepVars, tableVars, pathVars, httpVars, timerVars>>

\* (mutant of DrainEnd: the loop ends with one item still queued)
DrainEndLeavesOne ==
    /\ loop = "upload_files_from_queue"
    /\ Len(file_queue) <= 1
    /\ loop' = "free"
    /\ UNCHANGED <<schedVars, now, fs, db_files, ioFailures>>
    /\ UNCHANGED <<drainVars, sweepVars, tableVars, pathVars, httpVars, timerVars>>

\* the queue is empty: the loop ends and the job returns
DrainEnd ==
    /\ loop = "upload_files_from_queue"
    /\ QueueEmpty(file_queue)
    /\ loop' = "free"
    /\ UNCHANGED <<schedVars, now, fs, db_files, ioFailures>>
    /\ UNCHANGED <<drainVars, sweepVars, tableVars, pathVars, httpVars, timerVars>>

(***************************************************************************)
(* The retention sweep: delete_old_files runs in a worker thread, so its   *)
(* statements interleave with everything else                              *)
(***************************************************************************)
\* crud.get_all_files(db)
GetAllFiles(table) == table

\* (mutant of DeleteFile: nothing is deleted)
DeleteFileKeeps(table, id) == table

\* crud.delete_file(db, file.id)
DeleteFile(table, id) == SelectSeq(table, LAMBDA r : r.id # id)

\* os.remove(file.path), FileNotFoundError passed over
RemovePath(files, path) == [p \in (DOMAIN files) \ {path} |-> files[p]]

\* files = crud.get_all_files(db); now = datetime.datetime.now()
SweepBegin ==
    /\ Due("delete_old_files")
    /\ sweep.pc \in {"idle", "done", "raised"}
    /\ sweep' = [pc |-> "check", files |-> GetAllFiles(db_files), now |-> now, idx |-> 1]
    /\ sweepDeleted' = {}
    /\ sweepRemoved' = {}
    /\ UNCHANGED <<schedVars, loop, now, fs, db_files, ioFailures>>
    /\ UNCHANGED <<drainVars, tableVars, pathVars, httpVars, timerVars>>

\* the invocation ends by an exception: the executor logs it
SweepRaise ==
    /\ sweep' = [sweep EXCEPT !.pc = "raised"]
    /\ LET r == JobRaised(state, jobstore, "delete_old_files")
       IN  state' = r.state /\ jobstore' = r.jobstore

\* the sweep's session has committed since the listing: SessionLocal has
\* expire_on_commit on, so the next attribute read of a listed row reloads it
SessionExpired(sw, deleted) ==
    \E k \in 1..(sw.idx - 1) : sw.files[k].id \in deleted

\* for file in files: parse the timestamp, compare the age, os.remove
SweepCheck ==
    /\ sweep.pc = "check"
    /\ IF sweep.idx > Len(sweep.files)
       THEN /\ sweep' = [sweep EXCEPT !.pc = "done"]
            /\ UNCHANGED <<state, jobstore, fs, sweepRemoved, ioFailures>>
       ELSE LET file           == sweep.files[sweep.idx]
                file_timestamp == FileTimestamp(file.path)
                file_age       == sweep.now - file_timestamp.t
            IN  IF /\ SessionExpired(sweep, sweepDeleted)
                   /\ \A i \in 1..Len(db_files) : db_files[i].id # file.id
                THEN \* file.path reloads a row that is gone: ObjectDeletedError
                     /\ SweepRaise
                     /\ UNCHANGED <<fs, sweepRemoved, ioFailures>>
                ELSE IF ~file_timestamp.ok
                THEN \* strptime raises ValueError, nothing catches it
                     /\ SweepRaise
                     /\ UNCHANGED <<fs, sweepRemoved, ioFailures>>
                ELSE IF IsExpired(file_age)
                THEN \/ \* the file is removed, or was absent already
                        /\ fs' = RemovePath(fs, file.path)
                        /\ sweepRemoved' = sweepRemoved \cup {file.path}
                        /\ sweep' = [sweep EXCEPT !.pc = "delete"]
                        /\ UNCHANGED <<state, jobstore, ioFailures>>
                     \/ \* os.remove raises another OSError
                        /\ ioFailures < MaxIOFailures
                        /\ ioFailures' = ioFailures + 1
                        /\ SweepRaise
                        /\ UNCHANGED <<fs, sweepRemoved>>
                ELSE /\ sweep' = [sweep EXCEPT !.idx = @ + 1]
                     /\ UNCHANGED <<state, jobstore, fs, sweepRemoved, ioFailures>>
    /\ UNCHANGED <<wasShutDown, lastCall, loop, now, db_files, sweepDeleted>>
    /\ UNCHANGED <<drainVars, tableVars, pathVars, httpVars, timerVars>>

\* crud.delete_file(db, file.id), then the next file
SweepDelete ==
    /\ sweep.pc = "delete"
    /\ LET file == sweep.files[sweep.idx]
       IN  /\ db_files' = DeleteFile(db_files, file.id)
           /\ sweepDeleted' = sweepDeleted \cup {file.id}
    /\ sweep' = [sweep EXCEPT !.pc = "check", !.idx = @ + 1]
    /\ UNCHANGED <<schedVars, loop, now, fs, ioFailures, sweepRemoved>>
    /\ UNCHANGED <<drainVars, tableVars, pathVars, httpVars, timerVars>>

(***************************************************************************)
(* The file request handlers of app/main.py: plain def, each runs in a      *)
(* worker thread                                                            *)
(***************************************************************************)
\* the file ids clients ask for: of the stored records, of a record the drain
\* job creates, and of no record
RequestIds == {1, 2, 3, 9}

\* the id lists clients send to delete-multiple-files
RequestIdLists == {<<9>>, <<1, 9>>, <<9, 1, 9>>, <<2, 2>>}

NoFile == [id |-> 0, filename |-> <<>>, path |-> <<>>]

\* (mutant of GetFile: the filter on the id is dropped)
GetFileAny(table, file_id) ==
    IF table = <<>> THEN [found |-> FALSE, file |-> NoFile]
    ELSE [found |-> TRUE, file |-> Head(table)]

\* crud.get_file(db, file_id): query(File).filter(File.id == file_id).first()
GetFile(table, file_id) ==
    IF \E i \in 1..Len(table) : table[i].id = file_id
    THEN [found |-> TRUE,
          file  |-> table[CHOOSE i \in 1..Len(table) :
                             /\ table[i].id = file_id
                             /\ \A j \in 1..(i - 1) : table[j].id # file_id]]
    ELSE [found |-> FALSE, file |-> NoFile]

\* raise HTTPException(status_code=404, detail="File not found")
NotFoundResponse ==
    [status_code |-> 404, keys |-> {"detail"}, filename |-> <<>>,
     text |-> "File not found", entries |-> <<>>]

\* return file
FileResponse(file) ==
    [status_code |-> 200, keys |-> {"id", "filename", "path"},
     filename |-> file.filename, text |-> "", entries |-> <<>>]

\* return {"message": "File deleted successfully"}
DeletedResponse ==
    [status_code |-> 200, keys |-> {"message"}, filename |-> <<>>,
     text |-> "File deleted successfully", entries |-> <<>>]

\* return response (a list of one-key objects {file_id: text})
ListResponse(entries) ==
    [status_code |-> 200, keys |-> {}, filename |-> <<>>, text |-> "",
     entries |-> entries]

\* def get_file(file_id)
get_file ==
    /\ \E file_id \in RequestIds :
          /\ request' = [op |-> "get_file", file_ids |-> <<file_id>>]
          /\ LET r == GetFile(db_files, file_id)
             IN  response' = IF r.found THEN FileResponse(r.file) ELSE NotFoundResponse
          /\ UNCHANGED handler
    /\ UNCHANGED <<schedVars, loop, now, fs, db_files, ioFailures>>
    /\ UNCHANGED <<drainVars, sweepVars, tableVars, pathVars, timerVars>>

\* def delete_file(file_id)
delete_file ==
    /\ \E file_id \in RequestIds :
          /\ request' = [op |-> "delete_file", file_ids |-> <<file_id>>]
          /\ UNCHANGED handler
          /\ LET r == GetFile(db_files, file_id)
             IN  IF r.found
                 THEN /\ db_files' = DeleteFile(db_files, file_id)
                      /\ fs' = RemovePath(fs, r.file.path)
                      /\ response' = DeletedResponse
                 ELSE /\ response' = NotFoundResponse
                      /\ UNCHANGED <<db_files, fs>>
    /\ UNCHANGED <<schedVars, loop, now, ioFailures>>
    /\ UNCHANGED <<drainVars, sweepVars, tableVars, pathVars, timerVars>>

RECURSIVE DeleteEach(_, _, _, _)
\* for file_id in files: the table, the files directory and the response list
\* after the loop over the ids
DeleteEach(table, files, file_ids, entries) ==
    IF file_ids = <<>>
    THEN [table |-> table, files |-> files, entries |-> entries]
    ELSE LET file_id == Head(file_ids)
             r       == GetFile(table, file_id)
         IN  IF r.found
             THEN DeleteEach(DeleteFile(table, file_id), RemovePath(files, r.file.path),
                      Tail(file_ids),
                      Append(entries, [id |-> file_id, text |-> "File deleted successfully"]))
             ELSE DeleteEach(table, files, Tail(file_ids),
                      Append(entries, [id |-> file_id, text |-> "File not found"]))

\* def delete_multiple_files(files)
delete_multiple_files ==
    /\ \E files \in RequestIdLists :
          /\ request' = [op |-> "delete_multiple_files", file_ids |-> files]
          /\ UNCHANGED handler
          /\ LET r == DeleteEach(db_files, fs, files, <<>>)
             IN  /\ db_files' = r.table
                 /\ fs' = r.files
                 /\ response' = ListResponse(r.entries)
    /\ UNCHANGED <<schedVars, loop, now, ioFailures>>
    /\ UNCHANGED <<drainVars, sweepVars, tableVars, pathVars, timerVars>>

(***************************************************************************)
(* The row-cap sweeps                                                      *)
(***************************************************************************)
\* crud.get_users(db) / crud.get_items(db): .offset(0).limit(100).all()
GetRows(table) == SubSeq(table, 1, Min(Len(table), QueryLimit))

\* users[10:]
RowsToDelete(rows) ==
    IF Len(rows) > RowCap THEN SubSeq(rows, RowCap + 1, Len(rows)) ELSE <<>>

\* the table after: for user in users_to_delete: crud.delete_user(db, user.id)
DeleteExcess(table) == SelectSeqBy(table, SeqToSet(RowsToDelete(GetRows(table))))

\* a coroutine job with no await ends by an exception
RowJobRaise(job) ==
    /\ ioFailures < MaxIOFailures
    /\ ioFailures' = ioFailures + 1
    /\ LET r == JobRaised(state, jobstore, job)
       IN  state' = r.state /\ jobstore' = r.jobstore

\* async def delete_excess_users()
delete_excess_users ==
    /\ Due("delete_excess_users")
    /\ loop = "free"
    /\ \/ /\ users' = DeleteExcess(users)
          /\ UNCHANGED <<state, jobstore, ioFailures>>
       \/ \* the session or the query raises
          /\ RowJobRaise("delete_excess_users")
          /\ UNCHANGED users
    /\ UNCHANGED <<wasShutDown, lastCall, loop, now, fs, db_files, items>>
    /\ UNCHANGED <<drainVars, sweepVars, pathVars, httpVars, timerVars>>

\* async def delete_excess_items()
delete_excess_items ==
    /\ Due("delete_excess_items")
    /\ loop = "free"
    /\ \/ /\ items' = DeleteExcess(items)
          /\ UNCHANGED <<state, jobstore, ioFailures>>
       \/ \* the session or the query raises
          /\ RowJobRaise("delete_excess_items")
          /\ UNCHANGED items
    /\ UNCHANGED <<wasShutDown, lastCall, loop, now, fs, db_files, users>>
    /\ UNCHANGED <<drainVars, sweepVars, pathVars, httpVars, timerVars>>

(***************************************************************************)
(* delete_file and delete_multiple_files statement by statement, as the    *)
(* worker thread of the request runs them beside the sweep's worker thread *)
(***************************************************************************)
\* the request arrives and is given a worker thread
RequestBegin ==
    /\ handler.pc = "idle"
    /\ \E r \in {[op |-> "delete_file", file_ids |-> <<file_id>>] : file_id \in RequestIds}
               \cup {[op |-> "delete_multiple_files", file_ids |-> files] :
                        files \in RequestIdLists} :
          /\ request' = r
          /\ handler' = [pc |-> "get", op |-> r.op, file_ids |-> r.file_ids,
                         path |-> <<>>, entries |-> <<>>, deleted |-> handler.deleted]
    /\ UNCHANGED <<schedVars, loop, now, fs, db_files, ioFailures, response>>
    /\ UNCHANGED <<drainVars, sweepVars, tableVars, pathVars, timerVars>>

\* file = crud.get_file(db, file_id); if file: file_path = file.path; else: the
\* not-found answer or entry; for delete_multiple_files also the end of the loop
RequestGet ==
    /\ handler.pc = "get"
    /\ IF handler.file_ids = <<>>
       THEN /\ response' = ListResponse(handler.entries)
            /\ handler' = [handler EXCEPT !.pc = "idle"]
       ELSE LET file_id == Head(handler.file_ids)
                r       == GetFile(db_files, file_id)
            IN  IF r.found
                THEN /\ handler' = [handler EXCEPT !.pc = "delete", !.path = r.file.path]
                     /\ UNCHANGED response
                ELSE IF handler.op = "delete_file"
                THEN /\ response' = NotFoundResponse
                     /\ handler' = [handler EXCEPT !.pc = "idle"]
                ELSE /\ handler' =
                          [handler EXCEPT
                              !.file_ids = Tail(@),
                              !.entries = Append(@, [id |-> file_id,
                                                     text |-> "File not found"])]
                     /\ UNCHANGED response
    /\ UNCHANGED <<schedVars, loop, now, fs, db_files, ioFailures, request>>
    /\ UNCHANGED <<drainVars, sweepVars, tableVars, pathVars, timerVars>>

\* crud.delete_file(db, file_id)
RequestDelete ==
    /\ handler.pc = "delete"
    /\ db_files' = DeleteFile(db_files, Head(handler.file_ids))
    /\ handler' = [handler EXCEPT !.pc = "remove",
                                  !.deleted = @ \cup {Head(handler.file_ids)}]
    /\ UNCHANGED <<schedVars, loop, now, fs, ioFailures, request, response>>
    /\ UNCHANGED <<drainVars, sweepVars, tableVars, pathVars, timerVars>>

\* try: os.remove(file_path) except OSError: pass; then the answer or the entry
RequestRemove ==
    /\ handler.pc = "remove"
    /\ fs' = RemovePath(fs, handler.path)
    /\ IF handler.op = "delete_file"
       THEN /\ response' = DeletedResponse
            /\ handler' = [handler EXCEPT !.pc = "idle"]
       ELSE /\ handler' =
                 [handler EXCEPT
                     !.pc = "get",
                     !.file_ids = Tail(@),
                     !.entries = Append(@, [id |-> Head(handler.file_ids),
                                            text |-> "File deleted successfully"])]
            /\ UNCHANGED response
    /\ UNCHANGED <<schedVars, loop, now, db_files, ioFailures, request>>
    /\ UNCHANGED <<drainVars, sweepVars, tableVars, pathVars, timerVars>>

(***************************************************************************)
(* Specifications                                                          *)
(***************************************************************************)
Next ==
    \/ startup_event
    \/ shutdown_event
    \/ Tick
    \/ upload_file
    \/ DrainBegin
    \/ DrainIter
    \/ DrainEnd
    \/ SweepBegin
    \/ SweepCheck
    \/ SweepDelete
    \/ delete_excess_users
    \/ delete_excess_items

Spec == Init /\ [][Next]_vars

\* the row-cap sweeps alone, on tables of every size up to MaxUsers, MaxItems
InitCap ==
    /\ InitCommon
    /\ InitPathIdle
    /\ db_files = <<>>
    /\ fs = <<>>
    /\ nextFileId = 1
    /\ users \in {IdSeq(n) : n \in 0..MaxUsers}
    /\ items \in {IdSeq(n) : n \in 0..MaxItems}

NextCap ==
    \/ startup_event
    \/ shutdown_event
    \/ delete_excess_users
    \/ delete_excess_items

SpecCap == InitCap /\ [][NextCap]_vars

\* shutdown against the four jobs: the scheduler's hooks, the clock, and every
\* job's invocations on the records two earlier runs left, no upload arriving.
\* The sweep's worker thread, once started, is scheduled until it returns.
InitStop ==
    /\ InitCommon
    /\ InitPathIdle
    /\ db_files = WithIds(<<OldA, OldB>>)
    /\ fs = [p \in {OldA.path, OldB.path} |-> 0]
    /\ nextFileId = 3
    /\ users = IdSeq(RowCap + 1)
    /\ items = IdSeq(RowCap)

NextStop ==
    \/ startup_event
    \/ shutdown_event
    \/ Tick
    \/ DrainBegin
    \/ DrainEnd
    \/ SweepBegin
    \/ SweepCheck
    \/ SweepDelete
    \/ delete_excess_users
    \/ delete_excess_items

SpecStop == InitStop /\ [][NextStop]_vars /\ WF_vars(SweepCheck \/ SweepDelete)

\* the request handlers, on the records two earlier runs left, with the upload
\* drain job at work
InitHttp ==
    /\ InitCommon
    /\ InitPathIdle
    /\ db_files = WithIds(<<OldA, OldB>>)
    /\ fs = [p \in {OldA.path, OldB.path} |-> 0]
    /\ nextFileId = 3
    /\ users = IdSeq(RowCap)
    /\ items = IdSeq(RowCap)

NextHttp ==
    \/ startup_event
    \/ upload_file
    \/ get_file
    \/ delete_file
    \/ delete_multiple_files
    \/ DrainBegin
    \/ DrainIter
    \/ DrainEnd

SpecHttp == InitHttp /\ [][NextHttp]_vars

\* uploads against the drain job and the scheduler's hooks: the event loop runs
\* the job, once begun, until it returns or raises, and a running scheduler goes
\* on submitting it
NextPersist ==
    \/ startup_event
    \/ shutdown_event
    \/ upload_file
    \/ DrainBegin
    \/ DrainIter
    \/ DrainEnd

SpecPersist ==
    /\ InitHttp
    /\ [][NextPersist]_vars
    /\ WF_vars(DrainIter \/ DrainEnd)
    /\ WF_vars(DrainBegin)

\* a delete request against the retention sweep, each in its worker thread, on
\* the records two earlier runs left
NextRace ==
    \/ startup_event
    \/ Tick
    \/ SweepBegin
    \/ SweepCheck
    \/ SweepDelete
    \/ RequestBegin
    \/ RequestGet
    \/ RequestDelete
    \/ RequestRemove

SpecRace == InitHttp /\ [][NextRace]_vars

\* uploads against the drain job: the event loop runs the job, once begun, until
\* it returns or raises, and a running scheduler goes on submitting it
NextDrain ==
    \/ startup_event
    \/ upload_file
    \/ Tick
    \/ DrainBegin
    \/ DrainIter
    \/ DrainEnd

SpecDrain ==
    /\ InitHttp
    /\ [][NextDrain]_vars
    /\ WF_vars(DrainIter \/ DrainEnd)
    /\ WF_vars(DrainBegin)

(***************************************************************************)
(* Timing: the scheduler's wakeups on the event loop, with the triggers'    *)
(* intervals, the defaults coalesce = True, max_instances = 1 and           *)
(* misfire_grace_time = 1 s that add_job leaves in force, and job bodies    *)
(* that stay in I/O for as long as the I/O takes                            *)
(***************************************************************************)
\* add_job gives no misfire_grace_time: the scheduler's default, in seconds
MisfireGraceTime == 1

\* the instants, in seconds of clock, the timing model looks at
TimerInstants == {0, 240, 242, 300, 302, 480, 482, 600, 602, 640}

\* the async def jobs run as tasks of the event loop, delete_old_files (a plain
\* def) in a worker thread
CoroutineJobs ==
    {"upload_files_from_queue", "delete_excess_users", "delete_excess_items"}

\* the job's last fire time at or before t (with coalesce, the one that is run)
LastRunTime(job, t) ==
    next_run_time[job] + ((t - next_run_time[job]) \div Period(job)) * Period(job)

\* the job's fire time has come
IsDue(job) ==
    /\ state = "STATE_RUNNING"
    /\ job \in jobstore
    /\ next_run_time[job] <= clock

\* an invocation that begins later than the grace time after its fire time is
\* dropped ("run time of job was missed")
Missed(run_time) == clock - run_time > MisfireGraceTime

\* the scheduler's wakeup, which runs on the event loop, handles a due job: it
\* sets the next fire time and submits the run, to the loop or to a thread
ProcessJob(job) ==
    /\ loop = "free"
    /\ IsDue(job)
    /\ LET run_time == LastRunTime(job, clock)
       IN  /\ next_run_time' = [next_run_time EXCEPT ![job] = run_time + Period(job)]
           /\ IF job \in instances
              THEN \* max_instances reached: this run is skipped
                   UNCHANGED <<tasks, instances, fired>>
              ELSE IF job \in CoroutineJobs
              THEN /\ tasks' = Append(tasks, [job |-> job, run_time |-> run_time])
                   /\ instances' = instances \cup {job}
                   /\ UNCHANGED fired
              ELSE IF Missed(run_time)
              THEN UNCHANGED <<tasks, instances, fired>>
              ELSE /\ instances' = instances \cup {job}
                   /\ fired' = [fired EXCEPT ![job] = @ + 1]
                   /\ UNCHANGED tasks
    /\ UNCHANGED <<schedVars, loop, now, fs, db_files, ioFailures, clock>>
    /\ UNCHANGED <<drainVars, sweepVars, tableVars, pathVars, httpVars>>

\* the event loop begins the next submitted coroutine invocation, once the
\* wakeup has handled every due job
TaskStart ==
    /\ loop = "free"
    /\ tasks # <<>>
    /\ \A job \in JobIds : ~IsDue(job)
    /\ LET task == Head(tasks)
       IN  /\ tasks' = Tail(tasks)
           /\ IF Missed(task.run_time)
              THEN /\ instances' = instances \ {task.job}
                   /\ UNCHANGED <<loop, fired>>
              ELSE /\ loop' = task.job
                   /\ fired' = [fired EXCEPT ![task.job] = @ + 1]
                   /\ UNCHANGED instances
    /\ UNCHANGED <<schedVars, now, fs, db_files, ioFailures, clock, next_run_time>>
    /\ UNCHANGED <<drainVars, sweepVars, tableVars, pathVars, httpVars>>

\* the coroutine job on the loop returns (or raises)
TaskEnd ==
    /\ loop \in CoroutineJobs
    /\ loop' = "free"
    /\ instances' = instances \ {loop}
    /\ UNCHANGED <<schedVars, now, fs, db_files, ioFailures>>
    /\ UNCHANGED <<clock, next_run_time, fired, tasks>>
    /\ UNCHANGED <<drainVars, sweepVars, tableVars, pathVars, httpVars>>

\* delete_old_files returns (or raises) in its thread
ThreadEnd ==
    /\ "delete_old_files" \in instances
    /\ instances' = instances \ {"delete_old_files"}
    /\ UNCHANGED <<schedVars, loop, now, fs, db_files, ioFailures>>
    /\ UNCHANGED <<clock, next_run_time, fired, tasks>>
    /\ UNCHANGED <<drainVars, sweepVars, tableVars, pathVars, httpVars>>

\* time passes, unless the event loop is free and has a wakeup or a task to run;
\* while an invocation is in flight it passes by MaxBlockSeconds at most
TimerTick ==
    /\ state = "STATE_RUNNING"
    /\ ~(loop = "free" /\ (tasks # <<>> \/ \E job \in JobIds : IsDue(job)))
    /\ \E t \in TimerInstants :
          /\ t > clock
          /\ \A u \in TimerInstants : u > clock => t <= u
          /\ t - clock > MaxBlockSeconds => (loop = "free" /\ instances = {})
          /\ clock' = t
    /\ UNCHANGED <<schedVars, loop, now, fs, db_files, ioFailures>>
    /\ UNCHANGED <<next_run_time, fired, tasks, instances>>
    /\ UNCHANGED <<drainVars, sweepVars, tableVars, pathVars, httpVars>>

InitTimer ==
    /\ InitCommon
    /\ InitPathIdle
    /\ db_files = <<>>
    /\ fs = <<>>
    /\ nextFileId = 1
    /\ users = IdSeq(RowCap)
    /\ items = IdSeq(RowCap)

NextTimer ==
    \/ startup_event
    \/ TimerTick
    \/ \E job \in JobIds : ProcessJob(job)
    \/ TaskStart
    \/ TaskEnd
    \/ ThreadEnd

SpecTimer == InitTimer /\ [][NextTimer]_vars

(***************************************************************************)
(* The path round trip: the drain job's formatting followed by the sweep's *)
(* parsing, on instants and filenames drawn from PathInstants and          *)
(* PathFileNames                                                           *)
(***************************************************************************)
PathInstants ==
    {Epoch0 + d : d \in {0, 59, 899, 900, 1200}}
    \cup {InstantOf([year |-> 2024, month |-> 2, day |-> 29,
                     hour |-> 23, minute |-> 59, second |-> 59]),
          InstantOf([year |-> 2024, month |-> 12, day |-> 31,
                     hour |-> 23, minute |-> 59, second |-> 59]),
          InstantOf([year |-> 2025, month |-> 1, day |-> 1,
                     hour |-> 0, minute |-> 0, second |-> 0]),
          InstantOf([year |-> 2000, month |-> 3, day |-> 1,
                     hour |-> 12, minute |-> 0, second |-> 9]),
          InstantOf([year |-> 1999, month |-> 10, day |-> 9,
                     hour |-> 9, minute |-> 9, second |-> 10])}

PathFileNames ==
    {FileNameA, FileNameU, FileNameS, <<>>, <<"_">>, <<"a", ".", "t">>,
     <<"1", "_", "2">>, <<".", ".", "/", "a">>}

InitPath ==
    /\ InitCommon
    /\ db_files = <<>>
    /\ fs = <<>>
    /\ nextFileId = 1
    /\ users = <<>>
    /\ items = <<>>
    /\ pT \in PathInstants
    /\ pName \in PathFileNames
    /\ pPath = <<>>
    /\ pParsed = [ok |-> FALSE, t |-> 0]
    /\ pStage = "input"

\* upload_files_from_queue, lines 48-49, at the instant pT for the filename pName
BuildPath ==
    /\ pStage = "input"
    /\ pPath' = FilePath(Strftime(pT), pName)
    /\ pStage' = "built"
    /\ UNCHANGED <<pT, pName, pParsed>>
    /\ UNCHANGED <<schedVars, loop, now, fs, db_files, ioFailures>>
    /\ UNCHANGED <<drainVars, sweepVars, tableVars, httpVars, timerVars>>

\* delete_old_files, lines 31-32, on the path built
ParsePath ==
    /\ pStage = "built"
    /\ pParsed' = FileTimestamp(pPath)
    /\ pStage' = "parsed"
    /\ UNCHANGED <<pT, pName, pPath>>
    /\ UNCHANGED <<schedVars, loop, now, fs, db_files, ioFailures>>
    /\ UNCHANGED <<drainVars, sweepVars, tableVars, httpVars, timerVars>>

NextPath ==
    \/ BuildPath
    \/ ParsePath

SpecPath == InitPath /\ [][NextPath]_vars

(***************************************************************************)
(* Steps and sets the properties speak of                                  *)
(***************************************************************************)
Items == 1..Len(uploads)

WritesOf(item) == {i \in 1..Len(writes) : writes[i].item = item}
CreatedOf(item) == {i \in 1..Len(created) : created[i].item = item}
TakesOf(item) == {i \in 1..Len(taken) : taken[i] = item}
QueuedAt(item) == {i \in 1..Len(file_queue) : file_queue[i].item = item}

FileIds == {db_files[i].id : i \in 1..Len(db_files)}

\* the records of the sweep's listing, by position
Listed == 1..Len(sweep.files)
WellFormed(i) == FileTimestamp(sweep.files[i].path).ok
AgeOf(i) == sweep.now - FileTimestamp(sweep.files[i].path).t

\* the sweep has dealt with position i of its listing
Passed(i) == i < sweep.idx
SweepInFlight == sweep.pc \in {"check", "delete"}
SweepEnded == sweep.pc \in {"done", "raised"}

\* a step in which upload_files_from_queue returns normally
DrainReturns ==
    /\ loop = "upload_files_from_queue"
    /\ loop' = "free"
    /\ QueueEmpty(file_queue)

\* C1: after N uploads have been enqueued and a run of the drain job has returned
\* with no I/O failure, the queue is empty, every one of the N items has been
\* written exactly once and has exactly one FileRecord, created with the item's
\* filename, N FileRecords have been created, and each is in the table unless its
\* age has passed the retention threshold since
C1_DrainPersistsAll ==
    [][(DrainReturns /\ ioFailures' = 0) =>
          /\ file_queue' = <<>>
          /\ Len(created') = Len(uploads')
          /\ Len(writes') = Len(uploads')
          /\ \A item \in 1..Len(uploads') :
                /\ Cardinality({i \in 1..Len(writes') : writes'[i].item = item}) = 1
                /\ \E i \in 1..Len(created') :
                      /\ created'[i].item = item
                      /\ created'[i].filename = uploads'[item]
                      /\ \A j \in 1..Len(created') :
                            created'[j].item = item => j = i
                      /\ \/ \E k \in 1..Len(db_files') :
                               /\ db_files'[k].id = created'[i].id
                               /\ db_files'[k].filename = uploads'[item]
                               /\ db_files'[k].path = created'[i].path
                         \/ IsExpired(now' - FileTimestamp(created'[i].path).t)
    ]_vars

\* C1 witness: two uploads were enqueued and a drain run that met no I/O failure
\* has returned, leaving two FileRecords
C1_Witness ==
    /\ Len(uploads) = 2
    /\ loop = "free"
    /\ ioFailures = 0
    /\ file_queue = <<>>
    /\ Len(created) = 2
    /\ Len(db_files) >= 2

\* C6: whatever the interleaving of uploads with runs of the drain job, every
\* accepted upload is either still in the queue, once, or has been taken from it,
\* once; it is never both, never neither, and it is written and recorded at most
\* once
C6_NoLossNoDuplicate ==
    /\ \A item \in Items :
          /\ Cardinality(QueuedAt(item)) + Cardinality(TakesOf(item)) = 1
          /\ Cardinality(WritesOf(item)) <= 1
          /\ Cardinality(CreatedOf(item)) <= 1
          /\ WritesOf(item) # {} => TakesOf(item) # {}
    /\ \A i \in 1..Len(file_queue) :
          /\ file_queue[i].item \in Items
          /\ file_queue[i].filename = uploads[file_queue[i].item]
    /\ \A i \in 1..Len(taken) : taken[i] \in Items

\* C6 witness: one upload was taken by a drain run that has ended, and another
\* upload, enqueued since or during it, waits in the queue for a later run
C6_Witness ==
    /\ Len(taken) = 1
    /\ Len(file_queue) = 1
    /\ loop = "free"
    /\ state = "STATE_RUNNING"

\* C2 (as amended): the sweep deletes a record, or removes its file, only when the
\* age parsed from the record's path is greater than the threshold, and the
\* threshold is 20 minutes: every record the sweep has dealt with is deleted if
\* its age is above 20 minutes (20 min 1 s, 29 min) and kept if it is 20 minutes
\* or less
C2_RetainsUpToTwentyMinutes ==
    /\ \A i \in Listed :
          /\ sweep.files[i].id \in sweepDeleted =>
                WellFormed(i) /\ AgeOf(i) > 20 * 60
          /\ (sweep.files[i].path \in sweepRemoved /\ WellFormed(i)) =>
                AgeOf(i) > 20 * 60
          /\ (Passed(i) /\ WellFormed(i)) =>
                (sweep.files[i].id \in sweepDeleted <=> AgeOf(i) > 20 * 60)
          /\ (Passed(i) /\ WellFormed(i) /\ AgeOf(i) <= 20 * 60) =>
                sweep.files[i].id \in FileIds
    /\ \A id \in sweepDeleted : \E i \in Listed : sweep.files[i].id = id

\* C2 witness: the sweep has passed a record whose age is exactly 20 minutes and
\* has kept it, record and file
C2_Witness ==
    \E i \in Listed :
        /\ Passed(i)
        /\ WellFormed(i)
        /\ AgeOf(i) = 20 * 60
        /\ sweep.files[i].id \in FileIds
        /\ sweep.files[i].id \notin sweepDeleted
        /\ sweep.files[i].path \in DOMAIN fs

\* C2 as stated: with a threshold of 30 minutes, a record stamped 29 minutes in
\* the past is retained by the sweep
C2_AsStated ==
    \A i \in Listed :
        (WellFormed(i) /\ AgeOf(i) = 29 * 60) =>
            /\ sweep.files[i].id \notin sweepDeleted
            /\ sweep.files[i].path \notin sweepRemoved

\* C3 as stated: a sweep whose listing holds a malformed record does not raise on
\* it, and when it has ended every well-formed expired record of the listing,
\* before or after the malformed one, has been deleted by it
C3_AsStated ==
    (/\ ioFailures = 0
     /\ \E i \in Listed : ~WellFormed(i)) =>
        /\ sweep.pc # "raised"
        /\ SweepEnded =>
              \A i \in Listed :
                  (WellFormed(i) /\ AgeOf(i) > RetentionSeconds) =>
                      sweep.files[i].id \in sweepDeleted

\* C7 as stated: when a sweep invocation has ended, every record it listed whose
\* age was above the threshold is gone, record and file
C7_AsStated ==
    (ioFailures = 0 /\ SweepEnded) =>
        \A i \in Listed :
            (WellFormed(i) /\ AgeOf(i) > RetentionSeconds) =>
                /\ sweep.files[i].id \notin FileIds
                /\ sweep.files[i].path \notin DOMAIN fs

\* steps in which a job's invocation ends by an exception
SweepRaises == sweep.pc = "check" /\ sweep'.pc = "raised"
DrainRaises ==
    /\ loop = "upload_files_from_queue"
    /\ loop' = "free"
    /\ ~QueueEmpty(file_queue)
RowJobRaises ==
    /\ loop = "free"
    /\ loop' = "free"
    /\ ioFailures' = ioFailures + 1
    /\ sweep' = sweep
JobRaises == SweepRaises \/ DrainRaises \/ RowJobRaises

\* steps in which a job's invocation starts
DrainStarts == loop = "free" /\ loop' = "upload_files_from_queue"
SweepStarts == ~SweepInFlight /\ sweep'.pc = "check"
RowJobRuns == users' # users \/ items' # items \/ RowJobRaises
JobStarts == DrainStarts \/ SweepStarts \/ RowJobRuns

\* a running scheduler that was not shut down still holds its four jobs and can
\* submit each of them: the sweep unless an invocation of it is in flight, the
\* coroutine jobs as soon as the event loop is free
StillScheduled ==
    (state = "STATE_RUNNING" /\ ~wasShutDown) =>
        /\ jobstore = JobIds
        /\ ~SweepInFlight => ENABLED SweepBegin
        /\ loop = "free" =>
              /\ ENABLED DrainBegin
              /\ ENABLED delete_excess_users
              /\ ENABLED delete_excess_items

\* C5: a step in which an invocation of one of the four jobs raises changes
\* neither the scheduler's state nor its job store, so a running scheduler stays
\* running, the other jobs can still be submitted, and so can the job that raised
C5_RaiseLeavesSchedulerRunning ==
    /\ [][JobRaises => (state' = state /\ jobstore' = jobstore)]_vars
    /\ []StillScheduled

\* C5 witness: the sweep has raised, the scheduler is running with all four jobs,
\* and another job, the drain, is at work on an upload
C5_Witness ==
    /\ sweep.pc = "raised"
    /\ state = "STATE_RUNNING"
    /\ jobstore = JobIds
    /\ loop = "upload_files_from_queue"
    /\ file_queue # <<>>

\* C8: once a shutdown has taken effect no job invocation starts any more, not
\* even if the scheduler is started again (its job store was emptied); the
\* shutdown leaves an invocation that is in flight as it is, and that invocation
\* runs to its end (it returns or raises)
C8_NoStartAfterStop ==
    /\ [][/\ wasShutDown => ~JobStarts
          /\ JobStarts => state = "STATE_RUNNING"
          /\ (state = "STATE_RUNNING" /\ state' = "STATE_STOPPED") =>
                UNCHANGED <<sweep, sweepDeleted, sweepRemoved, db_files, fs>>
       ]_vars
    /\ (SweepInFlight ~> SweepEnded)

\* C8 witness: the shutdown has just taken effect while a sweep invocation is in
\* flight, between its os.remove and its delete of a record
C8_Witness ==
    /\ state = "STATE_STOPPED"
    /\ lastCall = [op |-> "shutdown", raised |-> FALSE]
    /\ sweep.pc = "delete"

\* steps in which a lifecycle hook is called
StartCalled == lastCall' # lastCall /\ lastCall'.op = "start"
ShutdownCalled == lastCall' # lastCall /\ lastCall'.op = "shutdown"

\* the scheduler as constructed: stopped, and never shut down
Created == state = "STATE_STOPPED" /\ ~wasShutDown

\* C9 (as amended): start() changes the state only from stopped, to running;
\* stop() changes it only from running, to stopped; a call in any other state
\* leaves the state unchanged; nothing else changes the state. Stopped is the
\* state of a scheduler that was shut down as well as of one never started, so
\* start() takes a stopped scheduler back to running
C9_LifecycleTransitions ==
    [][/\ StartCalled =>
             state' = IF state = "STATE_STOPPED" THEN "STATE_RUNNING" ELSE state
       /\ ShutdownCalled =>
             state' = IF state = "STATE_RUNNING" THEN "STATE_STOPPED" ELSE state
       /\ state' # state => (StartCalled \/ ShutdownCalled)
       /\ state' \in {"STATE_STOPPED", "STATE_RUNNING"}
    ]_vars

\* C9 witness: a scheduler that was shut down runs again, and the start() called
\* on it while it was running raised and left it running
C9_Witness ==
    /\ wasShutDown
    /\ state = "STATE_RUNNING"
    /\ lastCall = [op |-> "start", raised |-> TRUE]

\* C9 as stated: the state only moves Created -> Running -> Stopped, so a
\* scheduler that has been stopped never becomes Running again
C9_AsStated ==
    [][state' # state =>
          \/ Created /\ state' = "STATE_RUNNING"
          \/ state = "STATE_RUNNING" /\ state' = "STATE_STOPPED"
    ]_vars

C10_AsStated ==
    pStage = "parsed" =>
        /\ Len(pPath) = 22 + Len(pName)
        /\ SubSeq(pPath, 1, 6) = FilesDir \o <<"/">>
        /\ AllDigits(SubSeq(pPath, 7, 14))
        /\ pPath[15] = "-"
        /\ AllDigits(SubSeq(pPath, 16, 21))
        /\ pPath[22] = "_"
        /\ SubSeq(pPath, 23, Len(pPath)) = pName
        /\ pParsed.ok
        /\ pParsed.t = pT

\* C11 as stated: at every instant of a running scheduler each job has been
\* started at least floor(E / P) times, E the time elapsed since start() and P the
\* job's period, give or take 30 seconds of timer tolerance
C11_AsStated ==
    state = "STATE_RUNNING" =>
        \A job \in JobIds : fired[job] >= (clock - 30) \div Period(job)

\* C17 as stated: while a job's invocation is in flight, a job whose fire time
\* has come is handled by the scheduler, an invocation submitted to the event
\* loop can begin, and an upload request can be handled
C17_AsStated ==
    state = "STATE_RUNNING" =>
        /\ \A job \in JobIds : IsDue(job) => ENABLED ProcessJob(job)
        /\ (tasks # <<>> /\ \A job \in JobIds : ~IsDue(job)) => ENABLED TaskStart
        /\ ENABLED upload_file

UploadStep == uploads' # uploads
HandlerStep == <<request, response>>' # <<request, response>>

\* C13: a call of the upload handler appends exactly one item, carrying the
\* uploaded filename, to the tail of the queue, writes no file, creates and
\* deletes no FileRecord, and answers 200 with the filename and the status
\* "File added to upload queue" while the item is still in the queue
C13_UploadOnlyEnqueues ==
    [][UploadStep =>
          /\ Len(file_queue') = Len(file_queue) + 1
          /\ SubSeq(file_queue', 1, Len(file_queue)) = file_queue
          /\ file_queue'[Len(file_queue')].filename = uploads'[Len(uploads')]
          /\ UNCHANGED <<writes, created, taken, fs, db_files, nextFileId>>
          /\ request'.op = "upload_file"
          /\ response'.status_code = 200
          /\ response'.keys = {"filename", "status"}
          /\ response'.filename = uploads'[Len(uploads')]
          /\ response'.text = "File added to upload queue"
    ]_vars

\* C13 witness: a second upload has just been answered, both uploads wait in the
\* queue in the order of their arrival, and nothing has been written
C13_Witness ==
    /\ request.op = "upload_file"
    /\ response.status_code = 200
    /\ Len(file_queue) = 2
    /\ file_queue[1].item = 1
    /\ file_queue[2].item = 2
    /\ writes = <<>>
    /\ created = <<>>

\* C14 as stated: the response to an upload carries a file_id, and a FileRecord
\* with the uploaded filename can be fetched as soon as the upload is answered
C14_AsStated ==
    request.op = "upload_file" =>
        /\ "file_id" \in response.keys
        /\ \E k \in 1..Len(db_files) : db_files[k].filename = response.filename

\* C15: a delete-file request for an id that has no FileRecord is answered 404
\* "File not found" and changes neither the table nor the files; the answer to a
\* delete-multiple-files request has one entry per requested id, in the order of
\* the request, the entry of an id without record (at its turn) says
\* "File not found", no record other than those of the requested ids is touched,
\* and when none of the ids has a record neither the table nor the files change
C15_DeleteNotFound ==
    [][HandlerStep =>
          /\ (request'.op = "delete_file"
                 /\ ~GetFile(db_files, request'.file_ids[1]).found) =>
                /\ response' = NotFoundResponse
                /\ UNCHANGED <<db_files, fs>>
          /\ request'.op = "delete_multiple_files" =>
                /\ response'.status_code = 200
                /\ Len(response'.entries) = Len(request'.file_ids)
                /\ \A i \in 1..Len(request'.file_ids) :
                      /\ response'.entries[i].id = request'.file_ids[i]
                      /\ (\/ ~GetFile(db_files, request'.file_ids[i]).found
                          \/ \E j \in 1..(i - 1) :
                                request'.file_ids[j] = request'.file_ids[i])
                            <=> response'.entries[i].text = "File not found"
                /\ \A k \in 1..Len(db_files) :
                      db_files[k].id \notin SeqToSet(request'.file_ids) =>
                          db_files[k] \in SeqToSet(db_files')
                /\ (\A i \in 1..Len(request'.file_ids) :
                        ~GetFile(db_files, request'.file_ids[i]).found) =>
                      UNCHANGED <<db_files, fs>>
    ]_vars

\* C15 witness: delete-multiple-files was asked for ids 9, 1, 9 while record 1
\* existed: record 1 is gone, record 2 is there, and the two entries for id 9
\* say "File not found"
C15_Witness ==
    /\ request = [op |-> "delete_multiple_files", file_ids |-> <<9, 1, 9>>]
    /\ response.entries =
          <<[id |-> 9, text |-> "File not found"],
            [id |-> 1, text |-> "File deleted successfully"],
            [id |-> 9, text |-> "File not found"]>>
    /\ 1 \notin FileIds
    /\ 2 \in FileIds

DrainInFlight == loop = "upload_files_from_queue"

\* C16: while an invocation of the drain job runs no upload is accepted and the
\* queue only shrinks, by the item at its head, one per turn of the loop: the
\* invocation handles the items that were queued when it began and no other, and
\* it ends, whatever uploads are waiting to be handled
C16_DrainBoundedPass ==
    /\ [][DrainInFlight =>
             /\ uploads' = uploads
             /\ Len(file_queue') <= Len(file_queue)
             /\ file_queue' # file_queue =>
                   /\ file_queue' = Tail(file_queue)
                   /\ taken' = Append(taken, Head(file_queue).item)
       ]_vars
    /\ [](DrainInFlight => ~ENABLED upload_file)
    /\ (DrainInFlight ~> ~DrainInFlight)

\* C16 witness: an invocation has taken the two items that were queued when it
\* began and is about to end
C16_Witness ==
    /\ DrainInFlight
    /\ Len(uploads) = 2
    /\ Len(taken) = 2
    /\ file_queue = <<>>
    /\ ioFailures = 0

\* a turn of the drain loop in which the write of the item taken fails
WriteFails == taken' # taken /\ writes' = writes

\* C18: a FileRecord exists only for an item whose payload was written, at the
\* path it was written to; a turn in which the write fails creates no FileRecord,
\* ends the invocation, and takes from the queue the failed item alone, which is
\* never queued or taken again; every other queued item stays queued, and is
\* taken by this or a later invocation while the scheduler runs
C18_RecordOnlyAfterWrite ==
    /\ [](\A item \in Items :
             /\ \A i \in CreatedOf(item) :
                   \E j \in WritesOf(item) : writes[j].path = created[i].path
             /\ TakesOf(item) # {} => QueuedAt(item) = {}
             /\ Cardinality(TakesOf(item)) <= 1)
    /\ [][WriteFails =>
             /\ created' = created
             /\ db_files' = db_files
             /\ file_queue' = Tail(file_queue)
             /\ loop' = "free"
       ]_vars
    /\ \A item \in 1..MaxUploads :
          (state = "STATE_RUNNING" /\ QueuedAt(item) # {}) ~> (TakesOf(item) # {})

\* C18 witness: the write of the first item failed, it has no file and no
\* FileRecord and is not queued; the second item, queued behind it, has been
\* written and recorded since
C18_Witness ==
    /\ Len(uploads) = 2
    /\ taken = <<1, 2>>
    /\ WritesOf(1) = {}
    /\ CreatedOf(1) = {}
    /\ QueuedAt(1) = {}
    /\ WritesOf(2) # {}
    /\ CreatedOf(2) # {}

\* items strictly ascending: the order of arrival
Ascending(seq) == \A i, j \in 1..Len(seq) : i < j => seq[i] < seq[j]

\* C19: items are taken, written and recorded in the order in which they were
\* enqueued: when the payload of item B is written every item enqueued before B
\* has been taken already, and has its FileRecord if it has its file, unless its
\* invocation was ended by a failure
C19_FifoWithinInvocation ==
    /\ [](/\ Ascending(taken)
          /\ Ascending([i \in 1..Len(writes) |-> writes[i].item])
          /\ Ascending([i \in 1..Len(created) |-> created[i].item]))
    /\ [][writes' # writes =>
             \A A \in 1..(writes'[Len(writes')].item - 1) :
                 /\ TakesOf(A) # {}
                 /\ ioFailures = 0 => (WritesOf(A) # {} /\ CreatedOf(A) # {})
       ]_vars

\* C19 witness: one invocation, still running, has written and recorded item 1
\* and then item 2
C19_Witness ==
    /\ DrainInFlight
    /\ ioFailures = 0
    /\ Len(writes) = 2
    /\ writes[1].item = 1
    /\ writes[2].item = 2
    /\ Len(created) = 2
    /\ created[1].item = 1
    /\ created[2].item = 2

\* the record the sweep is at
SweepAt == sweep.files[sweep.idx]

\* C20: when the sweep is at an expired record whose file is absent, its next
\* step, unless an I/O failure is injected, goes on to delete the record without
\* raising; the step after deletes the record and moves to the next record of the
\* listing
C20_AbsentFileIsNoError ==
    [][/\ (/\ sweep.pc = "check"
           /\ sweep.idx <= Len(sweep.files)
           /\ WellFormed(sweep.idx)
           /\ AgeOf(sweep.idx) > RetentionSeconds
           /\ SweepAt.path \notin DOMAIN fs
           /\ sweep' # sweep
           /\ ioFailures' = ioFailures) =>
             /\ sweep' = [sweep EXCEPT !.pc = "delete"]
             /\ UNCHANGED <<state, jobstore, db_files>>
       /\ (sweep.pc = "delete" /\ sweep' # sweep) =>
             /\ SweepAt.id \notin {db_files'[k].id : k \in 1..Len(db_files')}
             /\ SweepAt.id \in sweepDeleted'
             /\ sweep' = [sweep EXCEPT !.pc = "check", !.idx = @ + 1]
    ]_vars

\* C20 witness: the sweep has deleted two records of one path; the file was
\* removed for the first and was absent for the second
C20_Witness ==
    \E i, k \in Listed :
        /\ i < k
        /\ sweep.files[i].path = sweep.files[k].path
        /\ sweep.files[i].id \in sweepDeleted
        /\ sweep.files[k].id \in sweepDeleted
        /\ Passed(k)

\* C21 (as stated): any two FileRecords created by the drain job have different
\* paths, and the file at the path of a FileRecord holds the payload of the
\* upload the record was created for
C21_AsStated ==
    /\ \A i, j \in 1..Len(created) :
          i # j => created[i].path # created[j].path
    /\ \A i \in 1..Len(created) :
          created[i].path \in DOMAIN fs => fs[created[i].path] = created[i].item

\* C22 (as stated): with a delete request and a sweep at work on the records
\* two earlier runs left, and no I/O failure injected, the sweep does not end by
\* an exception; once both have ended, every record both of them deleted is gone
\* from the table and so is its file; a record or a file is gone only if a
\* request deleted the record or the record has expired
C22_AsStated ==
    /\ ioFailures = 0 => sweep.pc # "raised"
    /\ (sweep.pc = "done" /\ handler.pc = "idle") =>
          \A i \in 1..Len(sweep.files) :
              sweep.files[i].id \in sweepDeleted \cap handler.deleted =>
                 /\ sweep.files[i].id \notin FileIds
                 /\ sweep.files[i].path \notin DOMAIN fs
    /\ \A file \in SeqToSet(WithIds(<<OldA, OldB>>)) :
          (file.id \notin FileIds \/ file.path \notin DOMAIN fs) =>
             (file.id \in handler.deleted \/ now - Epoch0 > RetentionSeconds)

\* the upload has its file and a FileRecord with its filename at the file's path
Persisted(item) ==
    \E i \in CreatedOf(item) :
        /\ created[i].filename = uploads[item]
        /\ \E j \in WritesOf(item) : writes[j].path = created[i].path

\* the drain job took the upload and an I/O failure ended its turn
FailedInTurn(item) == TakesOf(item) # {} /\ ~Persisted(item)

====
